---- MODULE Spec2Model ----
(***************************************************************************)
(* Company Operations API (src/main.py, src/schemas.py).                   *)
(*                                                                         *)
(* Strings that the code splits, strips or hashes (emails, passwords,      *)
(* tokens, Authorization headers) are sequences of symbols.  A symbol is   *)
(* either a character [ch |-> c] or a SHA-256 hex digest                   *)
(* [ch |-> "#", pre |-> preimage]: the 64 hex characters of a digest hold  *)
(* neither ':' nor ' ', so a digest behaves as one opaque symbol, and the  *)
(* hash is collision free (two digests are equal iff their preimages are). *)
(* Opaque texts (titles, summaries, names) are TLA+ strings.               *)
(***************************************************************************)
EXTENDS Integers, Sequences, FiniteSets, Bags, TLC

VARIABLES users, tasks, reports, salaries, finances, regs, resp, issued,
          unauth_ok, clock

vars == <<users, tasks, reports, salaries, finances, regs, resp, issued,
          unauth_ok, clock>>

-----------------------------------------------------------------------------
(* Bounds *)

MaxRegs == 2        \* register requests that can be in flight together
MaxTasks == 1       \* documents in the task collection
MaxReports == 1     \* documents in the report collection
MaxSalaries == 1    \* documents in the salarypayment collection
MaxFinances == 1    \* documents in the financerecord collection
MaxClock == 1       \* ticks of the server clock

-----------------------------------------------------------------------------
(* Strings *)

None == "None"

Ch(c) == [ch |-> c]

Str(cs) == [i \in DOMAIN cs |-> Ch(cs[i])]

Colon == Ch(":")

Space == Ch(" ")

\* hashlib.sha256(raw.encode()).hexdigest()
sha256_hexdigest(raw) == <<[ch |-> "#", pre |-> raw]>>

\* str.lower() on one symbol
LowerCh(s) ==
    IF s = Ch("B") THEN Ch("b")
    ELSE IF s = Ch("E") THEN Ch("e")
    ELSE IF s = Ch("A") THEN Ch("a")
    ELSE IF s = Ch("R") THEN Ch("r")
    ELSE s

Lower(s) == [i \in DOMAIN s |-> LowerCh(s[i])]

StartsWith(s, p) == Len(s) >= Len(p) /\ SubSeq(s, 1, Len(p)) = p

\* position of the first occurrence of symbol c in s, 0 when absent
IndexOf(s, c) ==
    IF \E i \in DOMAIN s : s[i] = c
    THEN CHOOSE i \in DOMAIN s : s[i] = c /\ \A j \in 1..(i-1) : s[j] # c
    ELSE 0

\* s.split(c, 1)[0]
SplitHead(s, c) ==
    IF IndexOf(s, c) = 0 THEN s ELSE SubSeq(s, 1, IndexOf(s, c) - 1)

\* s.split(c, 1)[1]   (only used where c occurs in s)
SplitTail(s, c) == SubSeq(s, IndexOf(s, c) + 1, Len(s))

RECURSIVE LStrip(_)
LStrip(s) == IF s # <<>> /\ Head(s) = Space THEN LStrip(Tail(s)) ELSE s

RECURSIVE RStrip(_)
RStrip(s) ==
    IF s # <<>> /\ s[Len(s)] = Space THEN RStrip(SubSeq(s, 1, Len(s) - 1))
    ELSE s

\* str.strip()
Strip(s) == RStrip(LStrip(s))

-----------------------------------------------------------------------------
(* Request inputs *)

EmailA == Str(<<"a", "@", "x">>)

EmailB == Str(<<"b", "@", "x">>)

Emails == {EmailA, EmailB}

PwP == Str(<<"p">>)

PwQ == Str(<<"q">>)

Passwords == {PwP, PwQ}

Roles == {"employee", "core"}

Names == {"n"}

\* SECRET = os.getenv("APP_SECRET", "change-me-secret")
SECRET == Str(<<"s">>)

-----------------------------------------------------------------------------
(* Utils *)

hash_password(password) == sha256_hexdigest(password)

make_token(email, password_hash) ==
    sha256_hexdigest(email \o <<Colon>> \o password_hash \o <<Colon>> \o SECRET)
        \o <<Colon>> \o email

\* returns the email, or the empty string for Python's None (both falsy)
parse_token(token) ==
    IF token = <<>> \/ IndexOf(token, Colon) = 0 THEN <<>>
    ELSE SplitTail(token, Colon)

\* collection.find_one(filter): of the positions of the matching documents,
\* the first in natural order, 0 when there is none
FindFirst(matching) ==
    IF matching = {} THEN 0
    ELSE CHOOSE i \in matching : \A j \in matching : i <= j

FindActiveUser(us, email) ==
    FindFirst({i \in DOMAIN us : us[i].email = email /\ us[i].is_active = TRUE})

FindUserByEmail(us, email) ==
    FindFirst({i \in DOMAIN us : us[i].email = email})

AuthUser(u) == [email |-> u.email, role |-> u.role, name |-> u.name]

Unauthorized == [status |-> 401, email |-> <<>>, role |-> None, name |-> None]

\* the signature is not compared
signature_ok_unchecked(token, user) == TRUE

\* get_current_user: "verify token signature"
signature_ok(token, user) ==
    SplitHead(token, Colon) = SplitHead(make_token(user.email, user.password_hash), Colon)

\* Depends(get_current_user): status 200 with the AuthUser, or the 401 raised
get_current_user(us, authorization) ==
    IF authorization = <<>> \/ ~StartsWith(Lower(authorization), Str(<<"b", "e", "a", "r", "e", "r", " ">>))
    THEN Unauthorized
    ELSE LET token == Strip(SplitTail(authorization, Space))
             email == parse_token(token)
         IN IF email = <<>> THEN Unauthorized
            ELSE LET i == FindActiveUser(us, email)
                 IN IF i = 0 THEN Unauthorized
                    ELSE IF ~signature_ok(token, us[i])
                         THEN Unauthorized
                         ELSE [status |-> 200] @@ AuthUser(us[i])

-----------------------------------------------------------------------------
(* Document store *)

\* str(ObjectId) as sent over the wire, and ObjectId(task_id) back
oid(n) == <<"oid", n>>

MalformedId == <<"bad">>

\* ObjectId(task_id): the id, or 0 when the constructor raises
ObjectId(s) == IF Len(s) = 2 /\ s[1] = "oid" THEN s[2] ELSE 0

\* datetime.isoformat()
isoformat(t) == <<"iso", t>>

serialize_doc(doc) ==
    [k \in DOMAIN doc |->
        IF k = "_id" THEN oid(doc[k])
        ELSE IF k \in {"created_at", "updated_at"} THEN isoformat(doc[k])
        ELSE doc[k]]

\* database.create_document: inserts the document under a new id, which is
\* its position in the collection
create_document(coll, data) ==
    Append(coll, [_id |-> Len(coll) + 1] @@ data)

RECURSIVE SelectDocs(_, _, _)
SelectDocs(coll, key, val) ==
    IF coll = <<>> THEN <<>>
    ELSE IF Head(coll)[key] = val
         THEN <<Head(coll)>> \o SelectDocs(Tail(coll), key, val)
         ELSE SelectDocs(Tail(coll), key, val)

\* database.get_documents(collection, q): q is {} (key = None) or {key: val}
get_documents(coll, key, val) ==
    IF key = None THEN coll ELSE SelectDocs(coll, key, val)

SerializeAll(docs) == [i \in DOMAIN docs |-> serialize_doc(docs[i])]

\* update_one({"_id": id}, {"$set": updates})
update_one(coll, id, updates) ==
    [i \in DOMAIN coll |->
        IF coll[i]._id = id
        THEN [k \in DOMAIN coll[i] \cup DOMAIN updates |->
                IF k \in DOMAIN updates THEN updates[k] ELSE coll[i][k]]
        ELSE coll[i]]

-----------------------------------------------------------------------------
(* State *)

NoResp == [ep |-> "none", hdr |-> <<>>, status |-> 0, body |-> <<>>, arg |-> <<>>]

Response(ep, hdr, status, body, arg) ==
    [ep |-> ep, hdr |-> hdr, status |-> status, body |-> body, arg |-> arg]

Init ==
    /\ users = <<>>
    /\ tasks = <<>>
    /\ reports = <<>>
    /\ salaries = <<>>
    /\ finances = <<>>
    /\ regs = EmptyBag
    /\ resp = NoResp
    /\ issued = {}
    /\ unauth_ok = 0
    /\ clock = 0

\* tokens a client can make up without the secret
ForgedTokens ==
    {Str(<<"f">>), Str(<<"f">>) \o <<Colon>> \o EmailA}

Bearer(token) == Str(<<"B", "e", "a", "r", "e", "r", " ">>) \o token

\* Authorization headers a client can send: none, a token it was issued, a
\* made-up token, or an issued token under another scheme
Headers ==
    {<<>>}
        \cup {Bearer(t.token) : t \in issued}
        \cup {Bearer(t) : t \in ForgedTokens}
        \cup {Str(<<"B", "a", "s", "i", "c", " ">>) \o t : t \in ForgedTokens}

\* register_user never reads the header: a request without one or with an
\* issued token
RegisterHeaders == {<<>>} \cup {Bearer(t.token) : t \in issued}

RegisterPayloads ==
    [name : Names, email : Emails, password : Passwords, role : Roles]

LoginPayloads == [email : Emails, password : Passwords]

\* datetime.utcnow() advances between requests
Tick ==
    /\ clock < MaxClock
    /\ clock' = clock + 1
    /\ UNCHANGED <<users, tasks, reports, salaries, finances, regs, resp,
                   issued, unauth_ok>>

-----------------------------------------------------------------------------
(* Auth *)

\* current: Optional[AuthUser] = Depends(lambda: None)
register_current(us, authorization) == Unauthorized

\* register_user up to and including count_documents({}) and the role rule;
\* regs is the bag of the requests that are past it
RegisterCount(payload, hdr) ==
    /\ LET users_count == Len(users)
           current == register_current(users, hdr)
       IN IF users_count > 0 /\ current.status # 200
          THEN /\ resp' = Response("POST /auth/register", hdr, 401, <<>>, payload)
               /\ regs' = regs
          ELSE IF users_count > 0 /\ current.role # "core"
          THEN /\ resp' = Response("POST /auth/register", hdr, 403, <<>>, payload)
               /\ regs' = regs
          ELSE /\ BagCardinality(regs) < MaxRegs
               /\ regs' = regs (+) SetToBag({[pc |-> "counted", hdr |-> hdr, payload |-> payload]})
               /\ resp' = resp
    /\ UNCHANGED <<users, tasks, reports, salaries, finances, issued,
                   unauth_ok, clock>>

\* register_user: find_one({"email": payload.email})
RegisterFind(r) ==
    /\ BagIn(r, regs)
    /\ r.pc = "counted"
    /\ IF FindUserByEmail(users, r.payload.email) # 0
       THEN /\ resp' = Response("POST /auth/register", r.hdr, 400, <<>>, r.payload)
            /\ regs' = regs (-) SetToBag({r})
       ELSE /\ regs' = (regs (-) SetToBag({r})) (+) SetToBag({[r EXCEPT !.pc = "checked"]})
            /\ resp' = resp
    /\ UNCHANGED <<users, tasks, reports, salaries, finances, issued,
                   unauth_ok, clock>>

\* register_user: create_document("user", doc) and the response
RegisterInsert(r) ==
    /\ BagIn(r, regs)
    /\ r.pc = "checked"
    /\ LET payload == r.payload
           doc == [name |-> payload.name, email |-> payload.email,
                   role |-> payload.role,
                   password_hash |-> hash_password(payload.password),
                   is_active |-> TRUE]
       IN /\ users' = create_document(users, doc)
          /\ resp' = Response("POST /auth/register", r.hdr, 200,
                              <<[email |-> payload.email, role |-> payload.role, name |-> payload.name]>>,
                              payload)
    /\ unauth_ok' = IF r.hdr = <<>> THEN unauth_ok + 1 ELSE unauth_ok
    /\ regs' = regs (-) SetToBag({r})
    /\ UNCHANGED <<tasks, reports, salaries, finances, issued, clock>>

\* the response of login: TokenResponse in the body, or the 401 raised
login_response(us, payload) ==
    LET i == FindActiveUser(us, payload.email)
    IN IF i = 0 THEN Response("POST /auth/login", <<>>, 401, <<>>, payload)
       ELSE IF us[i].password_hash # hash_password(payload.password)
       THEN Response("POST /auth/login", <<>>, 401, <<>>, payload)
       ELSE Response("POST /auth/login", <<>>, 200,
                     <<[token |-> make_token(us[i].email, us[i].password_hash),
                        user |-> AuthUser(us[i])]>>, payload)

\* issued remembers each token handed out, with the digest on file then
login(payload) ==
    /\ resp' = login_response(users, payload)
    /\ issued' = IF resp'.status = 200
                 THEN issued \cup {[token |-> resp'.body[1].token,
                                    email |-> resp'.body[1].user.email,
                                    password_hash |-> hash_password(payload.password)]}
                 ELSE issued
    /\ UNCHANGED <<users, tasks, reports, salaries, finances, regs, unauth_ok, clock>>

me(hdr) ==
    /\ \E current \in {get_current_user(users, hdr)} :
          IF current.status # 200
          THEN resp' = Response("GET /me", hdr, 401, <<>>, <<>>)
          ELSE resp' = Response("GET /me", hdr, 200,
                                <<[email |-> current.email, role |-> current.role, name |-> current.name]>>, <<>>)
    /\ UNCHANGED <<users, tasks, reports, salaries, finances, regs, issued,
                   unauth_ok, clock>>

-----------------------------------------------------------------------------
(* Tasks *)

CreateTaskPayloads ==
    {[title |-> "T", description |-> None, assignee_email |-> EmailA, due_date |-> None],
     [title |-> "T", description |-> None, assignee_email |-> EmailB, due_date |-> "2025-01-01"]}

\* JSON bodies sent to PATCH /tasks/{id}; None is an absent or null field,
\* <<>> an absent assignee_email
UpdateTaskBodies ==
    {[status |-> None, title |-> None, description |-> None, assignee_email |-> <<>>],
     [status |-> None, title |-> None, description |-> None, assignee_email |-> EmailB],
     [status |-> "done", title |-> None, description |-> None, assignee_email |-> <<>>],
     [status |-> None, title |-> "T2", description |-> "D2", assignee_email |-> EmailB]}

\* class UpdateTaskRequest(BaseModel): fields outside the model are ignored
UpdateTaskRequest(body) ==
    [status |-> body.status, title |-> body.title, description |-> body.description]

\* payload.model_dump(exclude_none=True)
model_dump_exclude_none(payload) ==
    [k \in {f \in DOMAIN payload : payload[f] # None} |-> payload[k]]

TaskIds == {MalformedId} \cup {oid(n) : n \in 1..(MaxTasks + 1)}

OptionalEmails == {<<>>} \cup Emails

\* the assignee filter is applied before the role is looked at
list_tasks_q_filter_first(current, assignee) ==
    IF assignee # <<>> THEN assignee
    ELSE IF current.role = "employee" THEN current.email
    ELSE <<>>

\* list_tasks: the query q, as the email it filters on (<<>> for {})
list_tasks_q(current, assignee) ==
    IF current.role = "employee" THEN current.email
    ELSE IF assignee # <<>> THEN assignee
    ELSE <<>>

\* the ownership rule is missing
update_task_forbidden_never(current, doc) == FALSE

\* update_task: the ownership rule that raises 403
update_task_forbidden(current, doc) ==
    current.role = "employee" /\ doc.assignee_email # current.email

\* the early return on an empty update is missing
no_updates_never(updates) == FALSE

\* update_task: "if not updates"
no_updates(updates) == DOMAIN updates = {}

find_q(coll, key, q) ==
    IF q = <<>> THEN get_documents(coll, None, <<>>) ELSE get_documents(coll, key, q)

create_task(hdr, payload) ==
    /\ \E current \in {get_current_user(users, hdr)} :
          IF current.status # 200
          THEN /\ resp' = Response("POST /tasks", hdr, 401, <<>>, payload)
               /\ tasks' = tasks
          ELSE IF current.role # "core"
          THEN /\ resp' = Response("POST /tasks", hdr, 403, <<>>, payload)
               /\ tasks' = tasks
          ELSE LET data0 == [title |-> payload.title,
                             description |-> payload.description,
                             assignee_email |-> payload.assignee_email,
                             status |-> "pending", due_date |-> None]
                   data == IF payload.due_date # None
                           THEN [data0 EXCEPT !.due_date = payload.due_date]
                           ELSE data0
               IN /\ Len(tasks) < MaxTasks
                  /\ tasks' = create_document(tasks, data)
                  /\ resp' = Response("POST /tasks", hdr, 200,
                                      <<serialize_doc(tasks'[Len(tasks')])>>, payload)
    /\ UNCHANGED <<users, reports, salaries, finances, regs, issued, unauth_ok, clock>>

list_tasks(hdr, assignee) ==
    /\ \E current \in {get_current_user(users, hdr)} :
          IF current.status # 200
          THEN resp' = Response("GET /tasks", hdr, 401, <<>>, assignee)
          ELSE LET docs == find_q(tasks, "assignee_email", list_tasks_q(current, assignee))
               IN resp' = Response("GET /tasks", hdr, 200, SerializeAll(docs), assignee)
    /\ UNCHANGED <<users, tasks, reports, salaries, finances, regs, issued,
                   unauth_ok, clock>>

update_task(hdr, task_id, body) ==
    /\ \E current \in {get_current_user(users, hdr)} :
       LET payload == UpdateTaskRequest(body)
           arg == <<task_id, body>>
           _id == ObjectId(task_id)
           i == FindFirst({k \in DOMAIN tasks : tasks[k]._id = _id})
           updates == model_dump_exclude_none(payload)
       IN IF current.status # 200
          THEN /\ resp' = Response("PATCH /tasks", hdr, 401, <<>>, arg)
               /\ tasks' = tasks
          ELSE IF _id = 0
          THEN /\ resp' = Response("PATCH /tasks", hdr, 400, <<>>, arg)
               /\ tasks' = tasks
          ELSE IF i = 0
          THEN /\ resp' = Response("PATCH /tasks", hdr, 404, <<>>, arg)
               /\ tasks' = tasks
          ELSE IF update_task_forbidden(current, tasks[i])
          THEN /\ resp' = Response("PATCH /tasks", hdr, 403, <<>>, arg)
               /\ tasks' = tasks
          ELSE IF no_updates(updates)
          THEN /\ resp' = Response("PATCH /tasks", hdr, 200, <<serialize_doc(tasks[i])>>, arg)
               /\ tasks' = tasks
          ELSE /\ tasks' = update_one(tasks, _id, updates @@ [updated_at |-> clock])
               /\ resp' = Response("PATCH /tasks", hdr, 200, <<serialize_doc(tasks'[i])>>, arg)
    /\ UNCHANGED <<users, reports, salaries, finances, regs, issued, unauth_ok, clock>>

-----------------------------------------------------------------------------
(* Reports *)

\* JSON bodies sent to POST /reports; employee_email is not a field of
\* CreateReportRequest, <<>> when the body does not carry it
CreateReportBodies ==
    {[date |-> "2025-01-01", summary |-> "S", hours_worked |-> 8, employee_email |-> <<>>],
     [date |-> "2025-01-01", summary |-> "S", hours_worked |-> 8, employee_email |-> EmailA],
     [date |-> "2025-01-01", summary |-> "S", hours_worked |-> 8, employee_email |-> EmailB],
     [date |-> "bad", summary |-> "S", hours_worked |-> 8, employee_email |-> <<>>]}

\* class CreateReportRequest(BaseModel): fields outside the model are ignored
CreateReportRequest(body) ==
    [date |-> body.date, summary |-> body.summary, hours_worked |-> body.hours_worked]

\* datetime.fromisoformat(s).date(): None when it raises ValueError
fromisoformat_date(s) == IF s = "bad" THEN None ELSE <<"date", s>>

\* the author is taken from the body when the body names one
report_author_from_body(current, body) ==
    IF body.employee_email # <<>> THEN body.employee_email ELSE current.email

\* create_report: employee_email=current.email
report_author(current, body) == current.email

\* list_reports: the query q, as the email it filters on (<<>> for {})
list_reports_q(current, employee) ==
    IF current.role = "employee" THEN current.email
    ELSE IF employee # <<>> THEN employee
    ELSE <<>>

create_report(hdr, body) ==
    /\ \E current \in {get_current_user(users, hdr)} :
       LET payload == CreateReportRequest(body)
       IN IF current.status # 200
          THEN /\ resp' = Response("POST /reports", hdr, 401, <<>>, body)
               /\ reports' = reports
          ELSE IF current.role # "employee"
          THEN /\ resp' = Response("POST /reports", hdr, 403, <<>>, body)
               /\ reports' = reports
          ELSE IF payload.date = "bad"
          THEN /\ resp' = Response("POST /reports", hdr, 500, <<>>, body)
               /\ reports' = reports
          ELSE LET data == [employee_email |-> report_author(current, body),
                            report_date |-> fromisoformat_date(payload.date),
                            summary |-> payload.summary,
                            hours_worked |-> payload.hours_worked]
               IN /\ Len(reports) < MaxReports
                  /\ reports' = create_document(reports, data)
                  /\ resp' = Response("POST /reports", hdr, 200,
                                      <<serialize_doc(reports'[Len(reports')])>>, body)
    /\ UNCHANGED <<users, tasks, salaries, finances, regs, issued, unauth_ok, clock>>

list_reports(hdr, employee) ==
    /\ \E current \in {get_current_user(users, hdr)} :
          IF current.status # 200
          THEN resp' = Response("GET /reports", hdr, 401, <<>>, employee)
          ELSE LET docs == find_q(reports, "employee_email", list_reports_q(current, employee))
               IN resp' = Response("GET /reports", hdr, 200, SerializeAll(docs), employee)
    /\ UNCHANGED <<users, tasks, reports, salaries, finances, regs, issued,
                   unauth_ok, clock>>

-----------------------------------------------------------------------------
(* Salary *)

CreateSalaryPayloads ==
    [employee_email : Emails, amount : {100}, month : {"2025-01"},
     notes : {None}, status : {"paid"}]

\* headers of the clients of the record endpoints: the token that login
\* returns for an email and the password PwP (401 while the email is not
\* registered)
ClientHeaders ==
    {Bearer(make_token(e, hash_password(PwP))) : e \in Emails}

\* list_salary: the query q, as the email it filters on (<<>> for {})
list_salary_q(current, employee) ==
    IF current.role = "employee" THEN current.email
    ELSE IF employee # <<>> THEN employee
    ELSE <<>>

create_salary(hdr, payload) ==
    /\ \E current \in {get_current_user(users, hdr)} :
          IF current.status # 200
          THEN /\ resp' = Response("POST /salary", hdr, 401, <<>>, payload)
               /\ salaries' = salaries
          ELSE IF current.role # "core"
          THEN /\ resp' = Response("POST /salary", hdr, 403, <<>>, payload)
               /\ salaries' = salaries
          ELSE /\ Len(salaries) < MaxSalaries
               /\ salaries' = create_document(salaries, payload)
               /\ resp' = Response("POST /salary", hdr, 200,
                                   <<serialize_doc(salaries'[Len(salaries')])>>, payload)
    /\ UNCHANGED <<users, tasks, reports, finances, regs, issued, unauth_ok, clock>>

list_salary(hdr, employee) ==
    /\ \E current \in {get_current_user(users, hdr)} :
          IF current.status # 200
          THEN resp' = Response("GET /salary", hdr, 401, <<>>, employee)
          ELSE LET docs == find_q(salaries, "employee_email", list_salary_q(current, employee))
               IN resp' = Response("GET /salary", hdr, 200, SerializeAll(docs), employee)
    /\ UNCHANGED <<users, tasks, reports, salaries, finances, regs, issued,
                   unauth_ok, clock>>

-----------------------------------------------------------------------------
(* Finance (core only) *)

CreateFinancePayloads ==
    [kind : {"revenue"}, amount : {100}, category : {"Sales"},
     description : {None}, reference : {None}]

\* create_finance: the role rule that raises 403
create_finance_forbidden(current) == current.role # "core"

\* the role rule lets every authenticated caller through
list_finance_forbidden_never(current) == FALSE

\* list_finance: the role rule that raises 403
list_finance_forbidden(current) == current.role # "core"

create_finance(hdr, payload) ==
    /\ \E current \in {get_current_user(users, hdr)} :
          IF current.status # 200
          THEN /\ resp' = Response("POST /finance", hdr, 401, <<>>, payload)
               /\ finances' = finances
          ELSE IF create_finance_forbidden(current)
          THEN /\ resp' = Response("POST /finance", hdr, 403, <<>>, payload)
               /\ finances' = finances
          ELSE /\ Len(finances) < MaxFinances
               /\ finances' = create_document(finances, payload)
               /\ resp' = Response("POST /finance", hdr, 200,
                                   <<serialize_doc(finances'[Len(finances')])>>, payload)
    /\ UNCHANGED <<users, tasks, reports, salaries, regs, issued, unauth_ok, clock>>

list_finance(hdr) ==
    /\ \E current \in {get_current_user(users, hdr)} :
          IF current.status # 200
          THEN resp' = Response("GET /finance", hdr, 401, <<>>, <<>>)
          ELSE IF list_finance_forbidden(current)
          THEN resp' = Response("GET /finance", hdr, 403, <<>>, <<>>)
          ELSE resp' = Response("GET /finance", hdr, 200,
                                SerializeAll(get_documents(finances, None, <<>>)), <<>>)
    /\ UNCHANGED <<users, tasks, reports, salaries, finances, regs, issued,
                   unauth_ok, clock>>

-----------------------------------------------------------------------------
(* Specifications *)

RegisterSteps(payloads, headers) ==
    \/ \E payload \in payloads, hdr \in headers : RegisterCount(payload, hdr)
    \/ \E r \in BagToSet(regs) : RegisterFind(r)
    \/ \E r \in BagToSet(regs) : RegisterInsert(r)

Register == RegisterSteps(RegisterPayloads, RegisterHeaders)

\* the registrations behind the record endpoints: one password, no header
StaffPayloads == [name : Names, email : Emails, password : {PwP}, role : Roles]

RegisterStaff == RegisterSteps(StaffPayloads, {<<>>})

Login == \E payload \in LoginPayloads : login(payload)

Me == \E hdr \in Headers : me(hdr)

CreateTask == \E hdr \in ClientHeaders, payload \in CreateTaskPayloads : create_task(hdr, payload)

ListTasks == \E hdr \in ClientHeaders, assignee \in OptionalEmails : list_tasks(hdr, assignee)

UpdateTask ==
    \E hdr \in ClientHeaders, task_id \in TaskIds, body \in UpdateTaskBodies :
        update_task(hdr, task_id, body)

CreateReport == \E hdr \in ClientHeaders, body \in CreateReportBodies : create_report(hdr, body)

ListReports == \E hdr \in ClientHeaders, employee \in OptionalEmails : list_reports(hdr, employee)

CreateSalary == \E hdr \in ClientHeaders, payload \in CreateSalaryPayloads : create_salary(hdr, payload)

ListSalary == \E hdr \in ClientHeaders, employee \in OptionalEmails : list_salary(hdr, employee)

CreateFinance == \E hdr \in ClientHeaders, payload \in CreateFinancePayloads : create_finance(hdr, payload)

ListFinance == \E hdr \in ClientHeaders : list_finance(hdr)

Next ==
    \/ Register
    \/ Login
    \/ Me
    \/ CreateTask
    \/ ListTasks
    \/ UpdateTask
    \/ CreateReport
    \/ ListReports
    \/ CreateSalary
    \/ ListSalary
    \/ CreateFinance
    \/ ListFinance
    \/ Tick

\* every endpoint; requests are served by concurrent workers, so the
\* document-store operations of register requests interleave
Spec == Init /\ [][Next]_vars

\* The specifications below are Spec restricted to the endpoints of one
\* collection.  A handler reads the user collection and its own collection
\* and writes its own collection and resp only, so the behaviours of Spec,
\* seen on the users and on one collection, are those of the restriction.
\* Users other than the first come from register requests that counted an
\* empty collection together: with one user on file register answers 401.

\* registration, login and token verification
SpecAuth == Init /\ [][Register \/ Login \/ Me]_vars

\* the task collection and its handlers
SpecTasks == Init /\ [][RegisterStaff \/ CreateTask \/ UpdateTask \/ Tick]_vars

\* the list endpoints of the three employee-owned collections
SpecLists ==
    Init /\ [][RegisterStaff \/ CreateTask \/ ListTasks \/ CreateReport \/ ListReports
                 \/ CreateSalary \/ ListSalary]_vars

\* the report collection and its handlers
SpecReports == Init /\ [][RegisterStaff \/ CreateReport \/ ListReports]_vars

\* A password change made on the document store: no endpoint writes
\* password_hash after registration
SetPasswordHash ==
    /\ \E i \in DOMAIN users, p \in Passwords :
          /\ users[i].password_hash # hash_password(p)
          /\ users' = [users EXCEPT ![i].password_hash = hash_password(p)]
    /\ UNCHANGED <<tasks, reports, salaries, finances, regs, resp, issued,
                   unauth_ok, clock>>

\* registration, login and token verification while passwords change
SpecPw == Init /\ [][RegisterStaff \/ Login \/ Me \/ SetPasswordHash]_vars

\* the finance collection and its handlers
SpecFinance == Init /\ [][RegisterStaff \/ CreateFinance \/ ListFinance]_vars

-----------------------------------------------------------------------------
(* Properties *)

Caller(hdr) == get_current_user(users, hdr)

IsEmployee(cur) == cur.status = 200 /\ cur.role = "employee"

IsCore(cur) == cur.status = 200 /\ cur.role = "core"

\* C1: a registration without a token passes the bootstrap rule iff the user
\* collection is empty when it is counted; with at least one user, the request
\* is rejected with 401 for an unauthenticated caller and 403 for a caller
\* authenticated as an employee, and the user collection is unchanged.
C1_BootstrapOrRejected ==
    [][\A payload \in RegisterPayloads, hdr \in RegisterHeaders :
          RegisterCount(payload, hdr) =>
              /\ (hdr = <<>> => (regs' # regs <=> Len(users) = 0))
              /\ (Len(users) > 0 /\ Caller(hdr).status # 200 =>
                      resp'.status = 401 /\ users' = users)
              /\ (Len(users) > 0 /\ IsEmployee(Caller(hdr)) =>
                      resp'.status = 403 /\ users' = users)]_vars

\* C2: a registration with the token of an active core user is refused only
\* when its email is already registered; otherwise it succeeds and the new
\* user is in the collection.
C2_CoreRegistersSubsequentUser ==
    (resp.ep = "POST /auth/register" /\ IsCore(Caller(resp.hdr))) =>
        IF resp.status = 200
        THEN FindUserByEmail(users, resp.arg.email) # 0
        ELSE resp.status = 400 /\ FindUserByEmail(users, resp.arg.email) # 0

\* C3: for every user that register accepted, login with that email and
\* password succeeds and its token authenticates as that email; and no issued
\* token authenticates as another email.
C3_LoginAfterRegister ==
    /\ \A i \in DOMAIN users, p \in Passwords :
          users[i].password_hash = hash_password(p) =>
              \A r \in {login_response(users, [email |-> users[i].email, password |-> p])} :
                  /\ r.status = 200
                  /\ \A cur \in {Caller(Bearer(r.body[1].token))} :
                        cur.status = 200 /\ cur.email = users[i].email
    /\ \A t \in issued :
          \A cur \in {Caller(Bearer(t.token))} :
              cur.status = 200 => cur.email = t.email

\* the digest on file for the user a token was issued to is no longer the one
\* the token was issued with
Stale(t) ==
    \E i \in {FindActiveUser(users, t.email)} :
        i # 0 /\ users[i].password_hash # t.password_hash

OwnerOf(ep, doc) ==
    IF ep = "GET /tasks" THEN doc.assignee_email ELSE doc.employee_email

\* C5: every record that GET /tasks, GET /reports or GET /salary returned to
\* a caller authenticated as an employee carries the caller's own email.
C5_EmployeeListsOwnOnly ==
    (resp.ep \in {"GET /tasks", "GET /reports", "GET /salary"} /\ IsEmployee(Caller(resp.hdr))) =>
        /\ resp.status = 200
        /\ \A k \in DOMAIN resp.body : OwnerOf(resp.ep, resp.body[k]) = Caller(resp.hdr).email

\* an employee asked GET /tasks for a colleague's tasks, the colleague has
\* one, and the answer holds none of it
C5_Witness ==
    /\ resp.ep = "GET /tasks"
    /\ resp.status = 200
    /\ IsEmployee(Caller(resp.hdr))
    /\ resp.arg # <<>>
    /\ resp.arg # Caller(resp.hdr).email
    /\ \E k \in DOMAIN tasks : tasks[k].assignee_email = resp.arg
    /\ resp.body = <<>>

\* C6: a GET /finance or POST /finance request of a caller authenticated as
\* an employee is answered 403 with no record data and leaves the
\* financerecord collection unchanged.
C6_FinanceInvisible ==
    [][(resp' # resp /\ resp'.ep \in {"GET /finance", "POST /finance"}
            /\ IsEmployee(Caller(resp'.hdr))) =>
          (resp'.status = 403 /\ resp'.body = <<>> /\ finances' = finances)]_vars

\* an employee asked GET /finance while a finance record exists and got 403
C6_Witness ==
    /\ resp.ep = "GET /finance"
    /\ resp.status = 403
    /\ resp.body = <<>>
    /\ IsEmployee(Caller(resp.hdr))
    /\ Len(finances) > 0

\* the task a PATCH request names, as its position in the collection (0: none)
TaskOf(task_id) ==
    FindFirst({k \in DOMAIN tasks : tasks[k]._id = ObjectId(task_id)})

\* C7: PATCH /tasks/{id} changes the task collection only for a core caller
\* or the task's assignee; an employee who is not the assignee gets 403 and
\* nothing changes; and no PATCH changes any task's assignee_email.
C7_UpdateOnlyByCoreOrAssignee ==
    [][(resp' # resp /\ resp'.ep = "PATCH /tasks") =>
          \A cur \in {Caller(resp'.hdr)}, i \in {TaskOf(resp'.arg[1])} :
              /\ tasks' # tasks =>
                    /\ i # 0
                    /\ cur.status = 200
                    /\ cur.role = "core" \/ cur.email = tasks[i].assignee_email
              /\ (i # 0 /\ IsEmployee(cur) /\ cur.email # tasks[i].assignee_email) =>
                    (resp'.status = 403 /\ tasks' = tasks)
              /\ DOMAIN tasks' = DOMAIN tasks
              /\ \A k \in DOMAIN tasks : tasks'[k].assignee_email = tasks[k].assignee_email]_vars

\* an employee sent a status change for a task assigned to someone else and
\* got 403
C7_Witness ==
    /\ resp.ep = "PATCH /tasks"
    /\ resp.status = 403
    /\ resp.arg[2].status = "done"
    /\ IsEmployee(Caller(resp.hdr))
    /\ TaskOf(resp.arg[1]) # 0
    /\ tasks[TaskOf(resp.arg[1])].assignee_email # Caller(resp.hdr).email
    /\ tasks[TaskOf(resp.arg[1])].status = "pending"

EmptyUpdate(body) ==
    body.status = None /\ body.title = None /\ body.description = None

\* C8: an authorized PATCH /tasks/{id} that sets none of status, title and
\* description answers 200 with the stored task and leaves the task
\* collection, updated_at included, as it was.
C8_EmptyUpdateWritesNothing ==
    [][(resp' # resp /\ resp'.ep = "PATCH /tasks" /\ EmptyUpdate(resp'.arg[2])) =>
          \A cur \in {Caller(resp'.hdr)}, i \in {TaskOf(resp'.arg[1])} :
              (i # 0 /\ cur.status = 200
                  /\ (cur.role = "core" \/ cur.email = tasks[i].assignee_email)) =>
                  /\ tasks' = tasks
                  /\ resp'.status = 200
                  /\ resp'.body = <<serialize_doc(tasks[i])>>]_vars

\* an authorized empty PATCH was answered 200 with the task, whose updated_at
\* is still the time of its last change although the clock has moved on
C8_Witness ==
    /\ resp.ep = "PATCH /tasks"
    /\ resp.status = 200
    /\ EmptyUpdate(resp.arg[2])
    /\ TaskOf(resp.arg[1]) # 0
    /\ resp.body = <<serialize_doc(tasks[TaskOf(resp.arg[1])])>>
    /\ "updated_at" \in DOMAIN tasks[TaskOf(resp.arg[1])]
    /\ tasks[TaskOf(resp.arg[1])].updated_at < clock

\* C9: only POST /reports adds to the report collection, one report per
\* request, and only for a caller authenticated as an employee, whose email
\* becomes the report's employee_email whatever the body carries; a core
\* caller gets 403 and no report is created.
C9_ReportAuthorIsCaller ==
    [][IF resp' # resp /\ resp'.ep = "POST /reports"
       THEN \A cur \in {Caller(resp'.hdr)} :
              /\ reports' # reports =>
                    /\ IsEmployee(cur)
                    /\ Len(reports') = Len(reports) + 1
                    /\ SubSeq(reports', 1, Len(reports)) = reports
                    /\ reports'[Len(reports')].employee_email = cur.email
              /\ IsCore(cur) => (resp'.status = 403 /\ reports' = reports)
       ELSE reports' = reports]_vars

\* an employee posted a report whose body names a colleague as the author;
\* the stored report carries the employee's own email
C9_Witness ==
    /\ resp.ep = "POST /reports"
    /\ resp.status = 200
    /\ IsEmployee(Caller(resp.hdr))
    /\ resp.arg.employee_email # <<>>
    /\ resp.arg.employee_email # Caller(resp.hdr).email
    /\ Len(reports) > 0
    /\ reports[Len(reports)].employee_email = Caller(resp.hdr).email

\* C10: no two users share an email, and at most one registration without a
\* token has succeeded.
C10_UniqueEmailSingleBootstrap ==
    /\ \A i, j \in DOMAIN users : i # j => users[i].email # users[j].email
    /\ unauth_ok <= 1

====
